---------------------------- MODULE Spec2Model ----------------------------
(* A model of lighthousectl (src/src/main.rs): the PowerState codec, the   *)
(* name Filter, the discover() pipeline and the scan() loop.  The single   *)
(* cooperative task is modelled by a program counter pc whose values are   *)
(* the suspension points (awaits) of scan() and discover(); one action is  *)
(* the completion of one await together with the uninterrupted code that   *)
(* follows it up to the next await.                                        *)
(* An Option<T> is modelled as a sequence of length at most one:           *)
(* <<>> is None and <<x>> is Some(x).                                      *)
EXTENDS Integers, Sequences, FiniteSets, TLC

(***************************************************************************)
(* Bounds of the model.                                                    *)
(***************************************************************************)
\* the radio feed delivers at most this many events in one run
MaxEvents == 2
\* the command line carries at most this many names
MaxNames == 2
\* a Filter on its own is asked about at most this many names
MaxQueries == 3

(***************************************************************************)
(* Wire constants.                                                         *)
(***************************************************************************)
CHARACTERISTIC_UUID == "00001525-1212-efde-1523-785feabcd124"
\* some other characteristic a peripheral may expose
OTHER_UUID == "00002a00-0000-1000-8000-00805f9b34fb"
\* 0x055d, the manufacturer id looked up in discover()
VENDOR_ID == 1373

None == <<>>
Some(x) == <<x>>

(***************************************************************************)
(* enum Command, enum PowerState and the codec.                            *)
(***************************************************************************)
Command == {"On", "Sleep", "Standby", "Scan"}

Byte == 0 .. 255

Sleep == [tag |-> "Sleep", byte |-> 0]
Booting == [tag |-> "Booting", byte |-> 0]
Standby == [tag |-> "Standby", byte |-> 0]
On == [tag |-> "On", byte |-> 0]
Unknown(b) == [tag |-> "Unknown", byte |-> b]

PowerState == {Sleep, Booting, Standby, On} \cup {Unknown(b) : b \in Byte}

\* a codec that does not know the status byte 0x09
Decode_Without09(byte) ==
    CASE byte = 0 -> Sleep
      [] byte \in {1, 8} -> Booting
      [] byte = 2 -> Standby
      [] byte = 11 -> On
      [] OTHER -> Unknown(byte)

\* impl From<u8> for PowerState
Decode(byte) ==
    CASE byte = 0 -> Sleep
      [] byte \in {1, 8, 9} -> Booting
      [] byte = 2 -> Standby
      [] byte = 11 -> On
      [] OTHER -> Unknown(byte)

\* a codec whose On encodes to the byte On is decoded from
Encode_OnAs0b(st) ==
    CASE st.tag = "Sleep" -> 0
      [] st.tag = "Booting" -> 1
      [] st.tag = "Standby" -> 2
      [] st.tag = "On" -> 11
      [] OTHER -> st.byte

\* impl From<PowerState> for u8
Encode(st) ==
    CASE st.tag = "Sleep" -> 0
      [] st.tag = "Booting" -> 1
      [] st.tag = "Standby" -> 2
      [] st.tag = "On" -> 1
      [] OTHER -> st.byte

HexDigits == <<"0", "1", "2", "3", "4", "5", "6", "7",
               "8", "9", "a", "b", "c", "d", "e", "f">>

\* format!("{:02x}", byte)
Hex02(byte) == HexDigits[(byte \div 16) + 1] \o HexDigits[(byte % 16) + 1]

\* impl Display for PowerState
Display(st) ==
    CASE st.tag = "Sleep" -> "SLEEP"
      [] st.tag = "Standby" -> "STANDBY"
      [] st.tag = "Booting" -> "BOOTING"
      [] st.tag = "On" -> "ON"
      [] OTHER -> "UNKNOWN(0x" \o Hex02(st.byte) \o ")"

(***************************************************************************)
(* struct Filter: names is an Option of a set of names.                    *)
(***************************************************************************)
\* a constructor that keeps an empty list as an empty set of names
Filter_new_AlwaysSome(names) ==
    [names |-> Some({names[i] : i \in 1 .. Len(names)})]

\* Filter::new
Filter_new(names) ==
    [names |-> IF names = <<>>
               THEN None
               ELSE Some({names[i] : i \in 1 .. Len(names)})]

\* a filter that never reports completion
is_completed_Never(f) == FALSE

\* Filter::is_completed
is_completed(f) ==
    IF f.names # None THEN f.names[1] = {} ELSE FALSE

\* a filter that looks a name up without removing it
is_matched_Contains(f, name) ==
    IF f.names # None
    THEN [ret |-> name \in f.names[1], filter |-> f]
    ELSE [ret |-> TRUE, filter |-> f]

\* a filter that takes up a name it was asked about and did not hold
is_matched_InsertOnMiss(f, name) ==
    IF f.names # None
    THEN [ret |-> name \in f.names[1],
          filter |-> [names |-> Some(IF name \in f.names[1]
                                     THEN f.names[1] \ {name}
                                     ELSE f.names[1] \cup {name})]]
    ELSE [ret |-> TRUE, filter |-> f]

\* Filter::is_matched: the value returned and the filter afterwards
is_matched(f, name) ==
    IF f.names # None
    THEN [ret |-> name \in f.names[1],
          filter |-> [names |-> Some(f.names[1] \ {name})]]
    ELSE [ret |-> TRUE, filter |-> f]

(***************************************************************************)
(* The radio environment: the peripherals in range.  properties() is the   *)
(* Option of the advertised properties (manufacturer_data is modelled by   *)
(* its key set, local_name is an Option), characteristics() is the set of  *)
(* characteristic UUIDs known after discover_services().                   *)
(***************************************************************************)
\* the peripherals the feed of a run reports; "p7" is a third ready device,
\* in range only where three distinct ready devices are needed
PeripheralId == {"p1", "p2", "p3", "p4", "p5", "p6"}

properties(id) ==
    CASE id = "p1" -> Some([manufacturer_data |-> {VENDOR_ID},
                            local_name |-> Some("LHB-1")])
      [] id = "p2" -> Some([manufacturer_data |-> {76, VENDOR_ID},
                            local_name |-> Some("LHB-2")])
      [] id = "p3" -> Some([manufacturer_data |-> {76},
                            local_name |-> Some("LHB-1")])
      [] id = "p4" -> Some([manufacturer_data |-> {VENDOR_ID},
                            local_name |-> None])
      [] id = "p5" -> None
      [] id = "p7" -> Some([manufacturer_data |-> {VENDOR_ID},
                            local_name |-> Some("LHB-3")])
      [] OTHER -> Some([manufacturer_data |-> {VENDOR_ID},
                        local_name |-> Some("LHB-3")])

characteristics(id) ==
    CASE id = "p6" -> {OTHER_UUID}
      [] id = "p1" -> {OTHER_UUID, CHARACTERISTIC_UUID}
      [] OTHER -> {CHARACTERISTIC_UUID}

\* enum CentralEvent, as far as discover() tells its variants apart
CentralEvent ==
    [kind : {"DeviceDiscovered"}, id : PeripheralId]
      \cup [kind : {"DeviceUpdated"}, id : {"p1"}]
      \cup [kind : {"DeviceConnected"}, id : {"p1"}]

\* what a read of the control characteristic may return
ReadResult == {<<>>, <<2>>, <<11>>, <<12, 2>>}

\* the names the operator may put on the command line
Name == {"LHB-1", "LHB-2"}

CliNames == UNION {[1 .. n -> Name] : n \in 0 .. MaxNames}

\* the name lists whole runs are started with; longer lists only repeat
\* names, which is the business of Filter::new alone
RunNames == {ns \in CliNames : Len(ns) <= 2}

(***************************************************************************)
(* The body of scan() after a non-empty read (lines 135-152).              *)
(***************************************************************************)
\* a loop that also commands the devices it was only asked to show
next_state_of_ScanWrites(command, current_state) ==
    CASE command = "Scan" -> Some(Standby)
      [] command = "On" -> Some(On)
      [] command = "Standby" -> Some(Standby)
      [] OTHER -> Some(Sleep)

\* a loop that leaves a device alone when it is already in the target state
next_state_of_SkipSame(command, current_state) ==
    CASE command = "Scan" -> None
      [] command = "On" ->
           IF current_state = On THEN None ELSE Some(On)
      [] command = "Standby" ->
           IF current_state = Standby THEN None ELSE Some(Standby)
      [] OTHER ->
           IF current_state = Sleep THEN None ELSE Some(Sleep)

\* match command { .. }: None is the `continue` of Command::Scan
next_state_of(command, current_state) ==
    CASE command = "Scan" -> None
      [] command = "On" -> Some(On)
      [] command = "Standby" -> Some(Standby)
      [] OTHER -> Some(Sleep)

\* the line handed to println!: next is None in the Command::Scan arm
printed_line(name, current_state, next) ==
    IF next = None
    THEN name \o ": " \o Display(current_state)
    ELSE name \o ": " \o Display(current_state) \o " -> "
              \o Display(next[1])

(***************************************************************************)
(* The checks of discover()'s try_filter_map closure.                      *)
(***************************************************************************)
\* a pipeline that takes every manufacturer for the vendor
contains_vendor_Any(props) == TRUE

\* props.manufacturer_data.contains_key(&0x055d)
contains_vendor(props) == VENDOR_ID \in props.manufacturer_data

\* a pipeline that takes whatever characteristic comes first
find_characteristic_Any(chars) ==
    IF chars = {} THEN None ELSE Some(CHOOSE ch \in chars : TRUE)

\* p.characteristics().into_iter().find(|ch| ch.uuid == CHARACTERISTIC_UUID)
find_characteristic(chars) ==
    IF CHARACTERISTIC_UUID \in chars THEN Some(CHARACTERISTIC_UUID) ELSE None

(***************************************************************************)
(* The state of one run.                                                   *)
(***************************************************************************)
VARIABLES
    state,        \* Scanning, Completed, StreamExhausted or Failed
    pc,           \* the await the task is suspended at
    command,      \* cli.command
    names,        \* cli.names
    filter,       \* the Filter of scan()
    p,            \* Option: the peripheral the pipeline is working on
    lh,           \* Option: the Lighthouse the loop is working on
    next_state,   \* Option: the state about to be written
    delivered,    \* the events the radio feed has delivered so far
    pulls,        \* the number of stream.try_next() calls
    ops,          \* the peripheral operations started, in order
    skips,        \* the events the pipeline dropped, with the reason
    yields,       \* the Lighthouses yielded, with the filter's answer
    reads,        \* the reads that returned, with their bytes
    out,          \* the lines printed
    writes,       \* the characteristic writes issued
    failedOp      \* the operation whose error ended the run, "" if none

vars == <<state, pc, command, names, filter, p, lh, next_state, delivered,
          pulls, ops, skips, yields, reads, out, writes, failedOp>>

\* the index of the event being processed
ev == Len(delivered)

Init ==
    /\ state = "Scanning"
    /\ pc = "start_scan"
    /\ command \in Command
    /\ names \in RunNames
    /\ filter = Filter_new(names)
    /\ p = None
    /\ lh = None
    /\ next_state = None
    /\ delivered = <<>>
    /\ pulls = 0
    /\ ops = <<>>
    /\ skips = <<>>
    /\ yields = <<>>
    /\ reads = <<>>
    /\ out = <<>>
    /\ writes = <<>>
    /\ failedOp = ""

\* an error that is noted and the operation awaited again
Failed_Retry(op) ==
    /\ failedOp' = op
    /\ UNCHANGED <<state, pc>>

\* a loop that reports success when the failed operation was the last one
\* it needed
Failed_UnlessCompleted(op) ==
    /\ state' = IF is_completed(filter) THEN "Completed" ELSE "Failed"
    /\ pc' = "returned"
    /\ failedOp' = op

\* the `?` operator on an Err: scan() returns the error
Failed(op) ==
    /\ state' = "Failed"
    /\ pc' = "returned"
    /\ failedOp' = op

\* the closure returns Ok(None): the event yields nothing, poll the next one
Skip(why) ==
    /\ skips' = Append(skips, [ev |-> ev, id |-> p[1], why |-> why])
    /\ pc' = "next_event"
    /\ p' = None

Op(op, id) == [op |-> op, id |-> id, ev |-> ev]

(***************************************************************************)
(* discover(): start the scan and subscribe to the event feed.             *)
(***************************************************************************)
\* central.start_scan(ScanFilter::default()).await?
StartScan ==
    /\ pc = "start_scan"
    /\ \E ok \in BOOLEAN :
         IF ok
         THEN pc' = "events" /\ UNCHANGED <<state, failedOp>>
         ELSE Failed("start_scan")
    /\ UNCHANGED <<command, names, filter, p, lh, next_state, delivered,
                   pulls, ops, skips, yields, reads, out, writes>>

\* central.events().await?, then scan() reaches the head of its loop
Events ==
    /\ pc = "events"
    /\ \E ok \in BOOLEAN :
         IF ok
         THEN pc' = "loop" /\ UNCHANGED <<state, failedOp>>
         ELSE Failed("events")
    /\ UNCHANGED <<command, names, filter, p, lh, next_state, delivered,
                   pulls, ops, skips, yields, reads, out, writes>>

(***************************************************************************)
(* scan(): the head of the while loop.                                     *)
(***************************************************************************)
\* while !filter.is_completed() fails: Ok(())
LoopCompleted ==
    /\ pc = "loop"
    /\ is_completed(filter)
    /\ state' = "Completed"
    /\ pc' = "returned"
    /\ UNCHANGED <<command, names, filter, p, lh, next_state, delivered,
                   pulls, ops, skips, yields, reads, out, writes, failedOp>>

\* a loop that pulls whether or not the filter is completed
TryNext_Always ==
    /\ pc = "loop"
    /\ pulls' = pulls + 1
    /\ pc' = "next_event"
    /\ UNCHANGED <<state, command, names, filter, p, lh, next_state,
                   delivered, ops, skips, yields, reads, out, writes,
                   failedOp>>

\* the loop body starts: stream.try_next() is called
TryNext ==
    /\ pc = "loop"
    /\ ~is_completed(filter)
    /\ pulls' = pulls + 1
    /\ pc' = "next_event"
    /\ UNCHANGED <<state, command, names, filter, p, lh, next_state,
                   delivered, ops, skips, yields, reads, out, writes,
                   failedOp>>

(***************************************************************************)
(* discover(): the stream pipeline, driven by try_next().                  *)
(***************************************************************************)
\* a loop that takes the end of the feed for an error
EventsEnd_AsError ==
    /\ pc = "next_event"
    /\ state' = "Failed"
    /\ pc' = "returned"
    /\ failedOp' = "try_next"
    /\ UNCHANGED <<command, names, filter, p, lh, next_state, delivered,
                   pulls, ops, skips, yields, reads, out, writes>>

\* the feed ends: try_next() is Ok(None) and the loop breaks
EventsEnd ==
    /\ pc = "next_event"
    /\ state' = "StreamExhausted"
    /\ pc' = "returned"
    /\ UNCHANGED <<command, names, filter, p, lh, next_state, delivered,
                   pulls, ops, skips, yields, reads, out, writes, failedOp>>

\* the feed delivers an event: filter_map keeps discovered and updated;
\* the run is followed for at most `bound` events, drawn from `events`
NextEventUpTo(bound, events) ==
    /\ pc = "next_event"
    /\ Len(delivered) < bound
    /\ \E e \in events :
         /\ delivered' = Append(delivered, e)
         /\ IF e.kind \in {"DeviceDiscovered", "DeviceUpdated"}
            THEN pc' = "peripheral" /\ p' = Some(e.id)
            ELSE UNCHANGED <<pc, p>>
    /\ UNCHANGED <<state, command, names, filter, lh, next_state, pulls,
                   ops, skips, yields, reads, out, writes, failedOp>>

NextEvent == NextEventUpTo(MaxEvents, CentralEvent)

\* central.peripheral(&id).await?
ResolvePeripheral ==
    /\ pc = "peripheral"
    /\ ops' = Append(ops, Op("peripheral", p[1]))
    /\ \E ok \in BOOLEAN :
         IF ok
         THEN pc' = "properties" /\ UNCHANGED <<state, failedOp>>
         ELSE Failed("peripheral")
    /\ UNCHANGED <<command, names, filter, p, lh, next_state, delivered,
                   pulls, skips, yields, reads, out, writes>>

\* a pipeline for which a peripheral without a local name is an error
Properties_NoNameIsError ==
    /\ pc = "properties"
    /\ ops' = Append(ops, Op("properties", p[1]))
    /\ \E ok \in BOOLEAN :
         IF ok
         THEN LET props == properties(p[1]) IN
              IF props = None
              THEN Skip("no_properties") /\ UNCHANGED <<state, failedOp>>
              ELSE IF ~contains_vendor(props[1])
              THEN Skip("no_vendor") /\ UNCHANGED <<state, failedOp>>
              ELSE IF props[1].local_name = None
              THEN Failed("no_local_name") /\ UNCHANGED <<p, skips>>
              ELSE /\ pc' = "connect"
                   /\ UNCHANGED <<p, skips, state, failedOp>>
         ELSE Failed("properties") /\ UNCHANGED <<p, skips>>
    /\ UNCHANGED <<command, names, filter, lh, next_state, delivered,
                   pulls, yields, reads, out, writes>>

\* p.properties().await? and the three checks before connect
Properties ==
    /\ pc = "properties"
    /\ ops' = Append(ops, Op("properties", p[1]))
    /\ \E ok \in BOOLEAN :
         IF ok
         THEN /\ UNCHANGED <<state, failedOp>>
              /\ LET props == properties(p[1]) IN
                 IF props = None
                 THEN Skip("no_properties")
                 ELSE IF ~contains_vendor(props[1])
                 THEN Skip("no_vendor")
                 ELSE IF props[1].local_name = None
                 THEN Skip("no_local_name")
                 ELSE pc' = "connect" /\ UNCHANGED <<p, skips>>
         ELSE Failed("properties") /\ UNCHANGED <<p, skips>>
    /\ UNCHANGED <<command, names, filter, lh, next_state, delivered,
                   pulls, yields, reads, out, writes>>

\* a pipeline that disconnects without enumerating the services
Connect_ThenDisconnect ==
    /\ pc = "connect"
    /\ ops' = Append(ops, Op("connect", p[1]))
    /\ \E ok \in BOOLEAN :
         IF ok
         THEN pc' = "disconnect" /\ UNCHANGED <<state, failedOp>>
         ELSE Failed("connect")
    /\ UNCHANGED <<command, names, filter, p, lh, next_state, delivered,
                   pulls, skips, yields, reads, out, writes>>

\* p.connect().await?
Connect ==
    /\ pc = "connect"
    /\ ops' = Append(ops, Op("connect", p[1]))
    /\ \E ok \in BOOLEAN :
         IF ok
         THEN pc' = "discover_services" /\ UNCHANGED <<state, failedOp>>
         ELSE Failed("connect")
    /\ UNCHANGED <<command, names, filter, p, lh, next_state, delivered,
                   pulls, skips, yields, reads, out, writes>>

\* p.discover_services().await?
DiscoverServices ==
    /\ pc = "discover_services"
    /\ ops' = Append(ops, Op("discover_services", p[1]))
    /\ \E ok \in BOOLEAN :
         IF ok
         THEN pc' = "disconnect" /\ UNCHANGED <<state, failedOp>>
         ELSE Failed("discover_services")
    /\ UNCHANGED <<command, names, filter, p, lh, next_state, delivered,
                   pulls, skips, yields, reads, out, writes>>

\* p.disconnect().await?, the search for the control characteristic, the
\* yield of the Lighthouse, and scan()'s filter.is_matched(&lh.name)
Disconnect ==
    /\ pc = "disconnect"
    /\ ops' = Append(ops, Op("disconnect", p[1]))
    /\ \E ok \in BOOLEAN :
         IF ok
         THEN /\ UNCHANGED <<state, failedOp>>
              /\ LET characteristic ==
                         find_characteristic(characteristics(p[1]))
                 IN
                 IF characteristic = None
                 THEN Skip("no_characteristic")
                      /\ UNCHANGED <<filter, lh, yields>>
                 ELSE LET l == [name |-> properties(p[1])[1].local_name[1],
                                peripheral |-> p[1],
                                characteristic |-> characteristic[1]]
                          m == is_matched(filter, l.name)
                      IN
                      /\ filter' = m.filter
                      /\ yields' = Append(yields,
                             [ev |-> ev, id |-> l.peripheral,
                              name |-> l.name,
                              characteristic |-> l.characteristic,
                              matched |-> m.ret])
                      /\ p' = None
                      /\ IF m.ret
                         THEN pc' = "read" /\ lh' = Some(l)
                         ELSE pc' = "loop" /\ lh' = None
                      /\ UNCHANGED skips
         ELSE Failed("disconnect")
              /\ UNCHANGED <<filter, p, lh, skips, yields>>
    /\ UNCHANGED <<command, names, next_state, delivered, pulls, reads, out,
                   writes>>

(***************************************************************************)
(* scan(): the body of the loop for a matched Lighthouse.                  *)
(***************************************************************************)
\* lh.peripheral.read(&lh.characteristic).await?, the decoding of the first
\* byte, the match on the command and the println!
Read ==
    /\ pc = "read"
    /\ ops' = Append(ops, Op("read", lh[1].peripheral))
    /\ \/ /\ Failed("read")
          /\ UNCHANGED <<lh, next_state, reads, out>>
       \/ \E bytes \in ReadResult :
            /\ UNCHANGED <<state, failedOp>>
            /\ reads' = Append(reads,
                   [ev |-> ev, id |-> lh[1].peripheral,
                    name |-> lh[1].name, bytes |-> bytes])
            /\ IF bytes = <<>>
               THEN /\ pc' = "loop"
                    /\ lh' = None
                    /\ UNCHANGED <<next_state, out>>
               ELSE LET current_state == Decode(bytes[1])
                        next == next_state_of(command, current_state)
                    IN
                    IF next = None
                    THEN /\ out' = Append(out,
                                printed_line(lh[1].name, current_state,
                                             next))
                         /\ pc' = "loop"
                         /\ lh' = None
                         /\ UNCHANGED next_state
                    ELSE /\ out' = Append(out,
                                printed_line(lh[1].name, current_state,
                                             next))
                         /\ pc' = "write"
                         /\ next_state' = next
                         /\ UNCHANGED lh
    /\ UNCHANGED <<command, names, filter, p, delivered, pulls, skips,
                   yields, writes>>

\* lh.peripheral.write(&lh.characteristic, &[next_state.into()],
\*                     WriteType::WithoutResponse).await?
Write ==
    /\ pc = "write"
    /\ ops' = Append(ops, Op("write", lh[1].peripheral))
    /\ writes' = Append(writes,
           [ev |-> ev, id |-> lh[1].peripheral, name |-> lh[1].name,
            characteristic |-> lh[1].characteristic,
            bytes |-> <<Encode(next_state[1])>>,
            write_type |-> "WithoutResponse"])
    /\ \E ok \in BOOLEAN :
         IF ok
         THEN /\ pc' = "loop"
              /\ lh' = None
              /\ next_state' = None
              /\ UNCHANGED <<state, failedOp>>
         ELSE Failed("write") /\ UNCHANGED <<lh, next_state>>
    /\ UNCHANGED <<command, names, filter, p, delivered, pulls, skips,
                   yields, reads, out>>

Next ==
    \/ StartScan
    \/ Events
    \/ LoopCompleted
    \/ TryNext
    \/ EventsEnd
    \/ NextEvent
    \/ ResolvePeripheral
    \/ Properties
    \/ Connect
    \/ DiscoverServices
    \/ Disconnect
    \/ Read
    \/ Write

Spec == Init /\ [][Next]_vars

(***************************************************************************)
(* The same program with at most one name on the command line and a third  *)
(* ready device in range, where a scan of all devices is followed for one  *)
(* event more than MaxEvents.                                              *)
(***************************************************************************)
InitC11 == Init /\ Len(names) <= 1

CentralEventC11 ==
    CentralEvent \cup {[kind |-> "DeviceDiscovered", id |-> "p7"]}

NextEventC11 ==
    NextEventUpTo(IF command = "Scan" /\ names = <<>>
                  THEN MaxEvents + 1
                  ELSE MaxEvents,
                  CentralEventC11)

NextC11 ==
    \/ StartScan
    \/ Events
    \/ LoopCompleted
    \/ TryNext
    \/ EventsEnd
    \/ NextEventC11
    \/ ResolvePeripheral
    \/ Properties
    \/ Connect
    \/ DiscoverServices
    \/ Disconnect
    \/ Read
    \/ Write

SpecC11 == InitC11 /\ [][NextC11]_vars

(***************************************************************************)
(* The program run with at least one name, by a task that is always        *)
(* resumed: the runtime of main() (current_thread) polls the one task      *)
(* until it returns, and an awaited operation eventually returns, with a   *)
(* result or with an error.                                                *)
(***************************************************************************)
InitLive ==
    Init /\ names \in {<<"LHB-1">>, <<"LHB-2">>, <<"LHB-1", "LHB-2">>}

SpecLive == InitLive /\ [][Next]_vars /\ WF_vars(Next)

(***************************************************************************)
(* The Filter on its own: built from a non-empty list of names and then    *)
(* asked about any names in any order; yields records the names asked and  *)
(* the answers.                                                            *)
(***************************************************************************)
InitFilter ==
    /\ state = "Scanning"
    /\ pc = "is_matched"
    /\ command = "Scan"
    /\ names \in CliNames \ {<<>>}
    /\ filter = Filter_new(names)
    /\ p = None
    /\ lh = None
    /\ next_state = None
    /\ delivered = <<>>
    /\ pulls = 0
    /\ ops = <<>>
    /\ skips = <<>>
    /\ yields = <<>>
    /\ reads = <<>>
    /\ out = <<>>
    /\ writes = <<>>
    /\ failedOp = ""

\* filter.is_matched(name)
FilterIsMatched ==
    /\ pc = "is_matched"
    /\ Len(yields) < MaxQueries
    /\ \E name \in Name \cup {"LHB-3"} :
         LET m == is_matched(filter, name) IN
         /\ filter' = m.filter
         /\ yields' = Append(yields,
                [ev |-> 0, id |-> "", name |-> name,
                 characteristic |-> CHARACTERISTIC_UUID,
                 matched |-> m.ret])
    /\ UNCHANGED <<state, pc, command, names, p, lh, next_state, delivered,
                   pulls, ops, skips, reads, out, writes, failedOp>>

NextFilter == FilterIsMatched

SpecFilter == InitFilter /\ [][NextFilter]_vars

(***************************************************************************)
(* The codec on its own: a status byte, any of the 256, is read, decoded   *)
(* as scan() decodes it (line 135), displayed as println! displays it and  *)
(* encoded as scan() encodes the state it writes (line 149).               *)
(***************************************************************************)
InitCodec ==
    /\ state = "Scanning"
    /\ pc = "decode"
    /\ command = "Scan"
    /\ names = <<>>
    /\ filter = Filter_new(names)
    /\ p = None
    /\ lh = None
    /\ next_state = None
    /\ delivered = <<>>
    /\ pulls = 0
    /\ ops = <<>>
    /\ skips = <<>>
    /\ yields = <<>>
    /\ \E byte \in Byte :
         reads = <<[ev |-> 0, id |-> "p1", name |-> "LHB-1",
                    bytes |-> <<byte>>]>>
    /\ out = <<>>
    /\ writes = <<>>
    /\ failedOp = ""

\* let current_state: PowerState = (*bytes.get(0)).into(), and its Display
CodecDecode ==
    /\ pc = "decode"
    /\ next_state' = Some(Decode(reads[1].bytes[1]))
    /\ out' = <<Display(Decode(reads[1].bytes[1]))>>
    /\ pc' = "encode"
    /\ UNCHANGED <<state, command, names, filter, p, lh, delivered, pulls,
                   ops, skips, yields, reads, writes, failedOp>>

\* &[next_state.into()]
CodecEncode ==
    /\ pc = "encode"
    /\ writes' = <<[ev |-> 0, id |-> "p1", name |-> "LHB-1",
                    characteristic |-> CHARACTERISTIC_UUID,
                    bytes |-> <<Encode(next_state[1])>>,
                    write_type |-> "WithoutResponse"]>>
    /\ pc' = "encoded"
    /\ UNCHANGED <<state, command, names, filter, p, lh, next_state,
                   delivered, pulls, ops, skips, yields, reads, out,
                   failedOp>>

NextCodec ==
    \/ CodecDecode
    \/ CodecEncode

SpecCodec == InitCodec /\ [][NextCodec]_vars

(***************************************************************************)
(* Vocabulary of the properties.                                           *)
(***************************************************************************)
Restricted == filter.names # None

PendingEmpty == filter.names # None /\ filter.names[1] = {}

Terminal == {"Completed", "StreamExhausted", "Failed"}

\* the text of a status byte according to the table of the codec
TextOfByte(b) ==
    CASE b = 0 -> "SLEEP"
      [] b \in {1, 8, 9} -> "BOOTING"
      [] b = 2 -> "STANDBY"
      [] b = 11 -> "ON"
      [] OTHER -> "UNKNOWN(0x" \o Hex02(b) \o ")"

\* the text of the state a command asks for
TextOfTarget(c) ==
    CASE c = "On" -> "ON"
      [] c = "Standby" -> "STANDBY"
      [] OTHER -> "SLEEP"

\* the byte a command asks to be written
ByteOfCommand(c) ==
    CASE c = "On" -> 1
      [] c = "Standby" -> 2
      [] OTHER -> 0

NonEmpty(r) == r.bytes # <<>>

\* the reads that returned at least one byte, in order
NonEmptyReads == SelectSeq(reads, NonEmpty)

\* the line the loop owes to a read that returned at least one byte
LineOfRead(r) ==
    IF command = "Scan"
    THEN r.name \o ": " \o TextOfByte(r.bytes[1])
    ELSE r.name \o ": " \o TextOfByte(r.bytes[1]) \o " -> "
                \o TextOfTarget(command)

\* the operations started for the k-th event, in order
OpsOfEvent(k) == SelectSeq(ops, LAMBDA o : o.ev = k)

OpNames(s) == [i \in 1 .. Len(s) |-> s[i].op]

Handshake == <<"peripheral", "properties", "connect", "discover_services",
               "disconnect">>

(***************************************************************************)
(* C1.  The parts of the claim that hold of every run: the run enters      *)
(* Completed exactly from the head of the loop with a restricted filter    *)
(* whose pending set is empty (every step taken from there enters          *)
(* Completed and no other step does); no step leaves Completed; and from   *)
(* the moment the pending set is empty no further element is pulled from   *)
(* the stream, no event is taken from the feed and no peripheral is        *)
(* resolved, connected, enumerated or disconnected.                        *)
(***************************************************************************)
C1_Common ==
    /\ [](state = "Completed" => PendingEmpty /\ pc = "returned")
    /\ [][(state' = "Completed") => (pc = "loop" /\ PendingEmpty)]_vars
    /\ [][(pc = "loop" /\ PendingEmpty) => (state' = "Completed")]_vars
    /\ [][state # "Completed"]_vars
    /\ [][PendingEmpty =>
            /\ pulls' = pulls
            /\ delivered' = delivered
            /\ \A i \in DOMAIN ops' :
                 i > Len(ops) =>
                   ops'[i].op \notin {"peripheral", "properties", "connect",
                                      "discover_services", "disconnect"}]_vars

\* C1 as stated: the run enters Completed if and only if the filter is
\* restricted and its pending set is empty at the head of the loop, and once
\* the pending set is empty no further element is pulled and no further
\* connect, read, print or write happens
C1_NothingAfterPendingEmpty ==
    /\ C1_Common
    /\ [][PendingEmpty =>
            /\ ops' = ops
            /\ reads' = reads
            /\ out' = out
            /\ writes' = writes]_vars

\* C1 as amended: the run enters Completed if and only if the filter is
\* restricted and its pending set is empty at the head of the loop; once the
\* run is Completed nothing further happens, and once the pending set is
\* empty no further element is pulled and no further connect happens; the
\* read, print and write that follow the emptying of the pending set are
\* those of the one device that matched the last pending name
C1_CompletedIffPendingEmptyAtLoopHead ==
    /\ C1_Common
    /\ [][PendingEmpty =>
            /\ Len(reads') <= Len(reads) + 1
            /\ \A i \in DOMAIN reads' :
                 i > Len(reads) =>
                   /\ reads'[i].ev = yields[Len(yields)].ev
                   /\ reads'[i].id = yields[Len(yields)].id
                   /\ yields[Len(yields)].matched
            /\ \A i \in DOMAIN writes' :
                 i > Len(writes) =>
                   /\ writes'[i].ev = yields[Len(yields)].ev
                   /\ writes'[i].id = yields[Len(yields)].id
                   /\ yields[Len(yields)].matched
            /\ Len(out') > Len(out) => Len(reads') > Len(reads)]_vars

\* a completed run that read, printed and wrote for its last name
C1_Witness ==
    /\ state = "Completed"
    /\ Len(names) = 2
    /\ Len(writes) = 2
    /\ pulls = 2

(***************************************************************************)
(* C2.  The run of the example: command standby, names ["LHB-1"], a feed   *)
(* of one DeviceDiscovered event of the ready vendor device "LHB-1", a     *)
(* read returning the byte 0x02, no failure.                               *)
(***************************************************************************)
C2_Scenario ==
    /\ command = "Standby"
    /\ names = <<"LHB-1">>
    /\ delivered = <<[kind |-> "DeviceDiscovered", id |-> "p1"]>>
    /\ Len(reads) = 1
    /\ reads[1].bytes = <<2>>
    /\ failedOp = ""
    /\ pc = "returned"

\* C2 as stated: the run of the example prints "LHB-1: STANDBY -> STANDBY",
\* performs zero characteristic writes and reaches Completed
C2_NoWriteWhenAlreadyInTarget ==
    C2_Scenario =>
      /\ out = <<"LHB-1: STANDBY -> STANDBY">>
      /\ writes = <<>>
      /\ state = "Completed"

\* C2 as amended: the run of the example prints "LHB-1: STANDBY -> STANDBY",
\* then performs exactly one characteristic write, of the single byte 0x02
\* to the control characteristic of that device, and reaches Completed
C2_OneWriteWhenAlreadyInTarget ==
    C2_Scenario =>
      /\ out = <<"LHB-1: STANDBY -> STANDBY">>
      /\ Len(writes) = 1
      /\ writes[1].bytes = <<2>>
      /\ writes[1].id = "p1"
      /\ writes[1].characteristic = CHARACTERISTIC_UUID
      /\ state = "Completed"

\* the run of the example has ended
C2_Witness == C2_Scenario /\ state \in Terminal

(***************************************************************************)
(* C3.  A read that returns zero bytes for a matched device leaves the run *)
(* in Scanning and, in restricted mode, leaves the device's name in the    *)
(* pending set, so that a later advertisement of the device is matched     *)
(* and read again.                                                         *)
(***************************************************************************)
C3_EmptyReadKeepsNamePending ==
    [][(/\ pc = "read"
        /\ Len(reads') = Len(reads) + 1
        /\ reads'[Len(reads')].bytes = <<>>)
       => /\ state' = "Scanning"
          /\ pc' = "loop"
          /\ Restricted =>
               /\ lh[1].name \in filter'.names[1]
               /\ is_matched(filter', lh[1].name).ret]_vars

\* C3's case: an empty read of a matched device in restricted mode
C3_Case ==
    /\ Restricted
    /\ reads # <<>>
    /\ reads[Len(reads)].bytes = <<>>

(***************************************************************************)
(* C4.  With command scan no characteristic write is ever issued, and the  *)
(* lines printed are exactly "{name}: {current}" for the reads that        *)
(* returned at least one byte, in order.                                   *)
(***************************************************************************)
C4_ScanNeverWrites ==
    command = "Scan" =>
      /\ writes = <<>>
      /\ pc # "write"
      /\ next_state = None
      /\ \A i \in DOMAIN ops : ops[i].op # "write"
      /\ Len(out) = Len(NonEmptyReads)
      /\ \A i \in DOMAIN out :
           out[i] = NonEmptyReads[i].name \o ": "
                      \o TextOfByte(NonEmptyReads[i].bytes[1])

\* a scan that printed the state of two devices
C4_Witness ==
    /\ command = "Scan"
    /\ Len(out) = 2
    /\ Len(reads) = 2

(***************************************************************************)
(* C5.  With a non-scan command every write carries exactly one byte, the  *)
(* encoding of the command's target (On 0x01, Standby 0x02, Sleep 0x00),   *)
(* whatever state was read from the device, in no-response mode, to the    *)
(* control characteristic of the device that was read.                     *)
(***************************************************************************)
C5_WriteIsTargetOfCommand ==
    command # "Scan" =>
      /\ Len(writes) <= Len(NonEmptyReads)
      /\ \A i \in DOMAIN writes :
           /\ writes[i].bytes = <<ByteOfCommand(command)>>
           /\ writes[i].write_type = "WithoutResponse"
           /\ writes[i].characteristic = CHARACTERISTIC_UUID
           /\ writes[i].id = NonEmptyReads[i].id
           /\ writes[i].ev = NonEmptyReads[i].ev

\* On written to a device that was read as Standby and to one read as On
C5_Witness ==
    /\ command = "On"
    /\ Len(writes) = 2
    /\ reads[1].bytes = <<2>>
    /\ reads[2].bytes = <<11>>

(***************************************************************************)
(* C6.  An operation that fails moves the run to Failed in the same step,  *)
(* the failed operation is the last one started, and no step leaves        *)
(* Failed: nothing is pulled, connected, read, printed or written after    *)
(* the failure.                                                            *)
(***************************************************************************)
C6_FailureIsFatal ==
    /\ [](failedOp # "" <=> state = "Failed")
    /\ [](state = "Failed" =>
            /\ pc = "returned"
            /\ failedOp \in {"start_scan", "events", "peripheral",
                             "properties", "connect", "discover_services",
                             "disconnect", "read", "write"}
            /\ failedOp \notin {"start_scan", "events"} =>
                 ops[Len(ops)].op = failedOp)
    /\ [][failedOp' # failedOp => state' = "Failed"]_vars
    /\ [][state # "Failed"]_vars

\* a run that failed in the write for its second device
C6_Witness ==
    /\ state = "Failed"
    /\ failedOp = "write"
    /\ Len(writes) = 2

(***************************************************************************)
(* C7.  In restricted mode, per requested name: at most one yield is       *)
(* reported matched, at most one read is started, at most one line is      *)
(* printed and at most one write is issued, however often a device of      *)
(* that name is yielded; every yield of a name after its first match is    *)
(* reported not matched, and reads are started only for matched yields.    *)
(***************************************************************************)
NameOfId(id) == properties(id)[1].local_name[1]

C7_NameMatchedAtMostOnce ==
    names # <<>> =>
      /\ \A n \in Name :
           /\ Cardinality({i \in DOMAIN yields :
                             yields[i].name = n /\ yields[i].matched}) <= 1
           /\ Cardinality({i \in DOMAIN ops :
                             /\ ops[i].op = "read"
                             /\ NameOfId(ops[i].id) = n}) <= 1
           /\ Cardinality({i \in DOMAIN reads : reads[i].name = n}) <= 1
           /\ Cardinality({i \in DOMAIN writes : writes[i].name = n}) <= 1
           /\ Cardinality({i \in DOMAIN out :
                             NonEmptyReads[i].name = n}) <= 1
      /\ Len(out) = Len(NonEmptyReads)
      /\ \A i \in DOMAIN out : out[i] = LineOfRead(NonEmptyReads[i])
      /\ \A i, j \in DOMAIN yields :
           (i < j /\ yields[i].name = yields[j].name /\ yields[i].matched)
             => ~yields[j].matched
      /\ \A i \in DOMAIN ops :
           ops[i].op \in {"read", "write"} =>
             \E j \in DOMAIN yields :
               yields[j].ev = ops[i].ev /\ yields[j].matched

\* a device matched on its first yield and yielded again, not matched
C7_Witness ==
    /\ names # <<>>
    /\ Len(yields) = 2
    /\ yields[1].name = yields[2].name
    /\ yields[1].matched
    /\ ~yields[2].matched
    /\ Len(reads) = 1

(***************************************************************************)
(* C8.  A peripheral without advertised properties, without the vendor id  *)
(* 0x055d among its manufacturer data or without a local name is never     *)
(* yielded and never connected (nor enumerated, disconnected, read or      *)
(* written), whatever its name and its characteristics.                    *)
(***************************************************************************)
Relevant(id) ==
    /\ properties(id) # None
    /\ VENDOR_ID \in properties(id)[1].manufacturer_data
    /\ properties(id)[1].local_name # None

C8_OnlyVendorPeripherals ==
    /\ \A i \in DOMAIN yields : Relevant(yields[i].id)
    /\ \A i \in DOMAIN ops :
         ops[i].op \notin {"peripheral", "properties"} => Relevant(ops[i].id)
    /\ p # None /\ pc \in {"connect", "discover_services", "disconnect"}
         => Relevant(p[1])
    /\ lh # None => Relevant(lh[1].peripheral)

\* a peripheral of another vendor, carrying a requested name and the control
\* characteristic, was dropped, as were one without properties or name
C8_Witness ==
    /\ "LHB-1" \in {names[i] : i \in DOMAIN names}
    /\ Len(skips) = 2
    /\ skips[1].id = "p3"
    /\ skips[1].why = "no_vendor"
    /\ skips[2].why \in {"no_properties", "no_local_name"}

(***************************************************************************)
(* C9.  For every Lighthouse yielded, the operations started for its       *)
(* event up to the yield are resolve, properties, connect,                 *)
(* discover_services, disconnect, in that order, each once and on that     *)
(* peripheral, and only read and write follow; the peripheral exposes the  *)
(* control characteristic and that is the characteristic yielded.  An      *)
(* event dropped for want of the characteristic went through the same      *)
(* handshake and nothing else.                                             *)
(***************************************************************************)
C9_HandshakeBeforeYield ==
    /\ \A i \in DOMAIN yields :
         LET o == OpsOfEvent(yields[i].ev) IN
         /\ Len(o) >= 5
         /\ SubSeq(OpNames(o), 1, 5) = Handshake
         /\ \A k \in DOMAIN o :
              /\ o[k].id = yields[i].id
              /\ k > 5 => o[k].op \in {"read", "write"}
         /\ CHARACTERISTIC_UUID \in characteristics(yields[i].id)
         /\ yields[i].characteristic = CHARACTERISTIC_UUID
    /\ \A i \in DOMAIN skips :
         skips[i].why = "no_characteristic" =>
           LET o == OpsOfEvent(skips[i].ev) IN
           /\ OpNames(o) = Handshake
           /\ \A k \in DOMAIN o : o[k].id = skips[i].id
           /\ CHARACTERISTIC_UUID \notin characteristics(skips[i].id)
    /\ \A i, j \in DOMAIN yields : i < j => yields[i].ev < yields[j].ev
    /\ pc \in {"read", "write"} =>
         /\ yields # <<>>
         /\ yields[Len(yields)].ev = ev
         /\ yields[Len(yields)].id = lh[1].peripheral

\* one device yielded after its handshake, one dropped after its handshake
C9_Witness ==
    /\ Len(yields) = 1
    /\ Len(skips) = 1
    /\ skips[1].why = "no_characteristic"
    /\ pc = "read"

(***************************************************************************)
(* C10.  A run started with an empty name list is never Completed: its     *)
(* filter stays unrestricted, is_completed() is false, is_matched answers  *)
(* true for every name and leaves the filter as it was, every yield is     *)
(* matched, and a run that has ended is StreamExhausted or Failed.         *)
(***************************************************************************)
C10_UnrestrictedNeverCompletes ==
    names = <<>> =>
      /\ filter.names = None
      /\ ~is_completed(filter)
      /\ \A n \in Name \cup {"LHB-3", ""} :
           /\ is_matched(filter, n).ret
           /\ is_matched(filter, n).filter = filter
           /\ ~is_completed(is_matched(filter, n).filter)
      /\ \A i \in DOMAIN yields : yields[i].matched
      /\ state # "Completed"
      /\ pc = "returned" => state \in {"StreamExhausted", "Failed"}

\* an unrestricted run that matched the same device twice and then saw the
\* feed end
C10_Witness ==
    /\ names = <<>>
    /\ Len(yields) = 2
    /\ yields[1].id = yields[2].id
    /\ Len(reads) = 2
    /\ state = "StreamExhausted"

(***************************************************************************)
(* C11.  A scan with an unrestricted filter that ended without error after *)
(* a feed of N events, one for each of N distinct ready vendor devices,    *)
(* whose reads all returned at least one byte: N reads, exactly N lines,   *)
(* the i-th being "{name}: {state}" of the i-th device of the feed, no     *)
(* write, and the run is StreamExhausted.                                  *)
(***************************************************************************)
Ready(id) == Relevant(id) /\ CHARACTERISTIC_UUID \in characteristics(id)

C11_Scenario ==
    /\ command = "Scan"
    /\ names = <<>>
    /\ pc = "returned"
    /\ failedOp = ""
    /\ \A i \in DOMAIN delivered :
         /\ delivered[i].kind \in {"DeviceDiscovered", "DeviceUpdated"}
         /\ Ready(delivered[i].id)
    /\ \A i, j \in DOMAIN delivered :
         i # j => delivered[i].id # delivered[j].id
    /\ \A i \in DOMAIN reads : reads[i].bytes # <<>>

C11_ScanAllPrintsOneLinePerDevice ==
    C11_Scenario =>
      /\ state = "StreamExhausted"
      /\ Len(reads) = Len(delivered)
      /\ Len(out) = Len(delivered)
      /\ \A i \in DOMAIN out :
           /\ reads[i].id = delivered[i].id
           /\ out[i] = NameOfId(delivered[i].id) \o ": "
                         \o TextOfByte(reads[i].bytes[1])
      /\ writes = <<>>
      /\ \A i \in DOMAIN ops : ops[i].op # "write"

\* the case of three distinct devices
C11_Witness ==
    /\ C11_Scenario
    /\ Len(delivered) = 3
    /\ state = "StreamExhausted"
    /\ Len(out) = 3

(***************************************************************************)
(* C12.  decode is defined on every byte and follows the table: 0x00 is    *)
(* Sleep; 0x01, 0x08 and 0x09 are Booting; 0x02 is Standby; 0x0b is On;    *)
(* every other byte b is Unknown carrying exactly b.                       *)
(***************************************************************************)
C12_DecodeFollowsTable ==
    pc \in {"encode", "encoded"} =>
      LET b == reads[1].bytes[1]
          d == next_state[1]
      IN
      /\ d \in PowerState
      /\ b = 0 => d = Sleep
      /\ b \in {1, 8, 9} => d = Booting
      /\ b = 2 => d = Standby
      /\ b = 11 => d = On
      /\ b \notin {0, 1, 2, 8, 9, 11} => d.tag = "Unknown" /\ d.byte = b
      /\ d.tag = "Unknown" => b \notin {0, 1, 2, 8, 9, 11}

\* the byte 0x09 was decoded
C12_Witness ==
    /\ pc = "encode"
    /\ reads[1].bytes = <<9>>
    /\ next_state = Some(Booting)

(***************************************************************************)
(* C13.  encode(decode(b)) is b for every byte b except 0x08, 0x09 and     *)
(* 0x0b, where it is 0x01; every byte decoded to Unknown comes back as     *)
(* itself.                                                                 *)
(***************************************************************************)
C13_EncodeOfDecode ==
    pc = "encoded" =>
      LET b == reads[1].bytes[1]
          e == writes[1].bytes
      IN
      /\ Len(e) = 1
      /\ e[1] \in Byte
      /\ b \in {8, 9, 11} => e[1] = 1
      /\ b \notin {8, 9, 11} => e[1] = b
      /\ next_state[1].tag = "Unknown" => e[1] = b

\* the byte 0x0b went through decode and encode
C13_Witness ==
    /\ pc = "encoded"
    /\ reads[1].bytes = <<11>>
    /\ next_state = Some(On)
    /\ writes[1].bytes = <<1>>

(***************************************************************************)
(* C14.  Devices are processed one at a time in the order of the feed:     *)
(* the operations started are grouped by event in feed order, those of one *)
(* event are an initial part of resolve, properties, connect,              *)
(* discover_services, disconnect, read, write (no write for scan), all on  *)
(* the peripheral of that event; the line of a read is printed before its  *)
(* write is started and before anything of a later event; the only         *)
(* operation in flight is the one the task is suspended at, and it belongs *)
(* to the last event delivered; try_next() is called again only after the  *)
(* read and the write of the device yielded before have returned.          *)
(***************************************************************************)
FullSequence == Handshake \o <<"read", "write">>

C14_OneDeviceAtATimeInFeedOrder ==
    /\ \A i, j \in DOMAIN ops : i < j => ops[i].ev <= ops[j].ev
    /\ \A k \in DOMAIN delivered :
         LET o == OpsOfEvent(k) IN
         /\ Len(o) <= Len(FullSequence)
         /\ OpNames(o) = SubSeq(FullSequence, 1, Len(o))
         /\ \A i \in DOMAIN o : o[i].id = delivered[k].id
         /\ delivered[k].kind \notin {"DeviceDiscovered", "DeviceUpdated"}
              => o = <<>>
         /\ command = "Scan" => Len(o) < Len(FullSequence)
    /\ \A i \in DOMAIN ops : ops[i].ev \in DOMAIN delivered
    /\ Len(out) = Len(NonEmptyReads)
    /\ command # "Scan" =>
         Len(writes) = IF pc = "write" THEN Len(out) - 1 ELSE Len(out)
    /\ \A i \in DOMAIN writes :
         /\ writes[i].ev = NonEmptyReads[i].ev
         /\ writes[i].id = NonEmptyReads[i].id
    /\ \A i, j \in DOMAIN reads : i < j => reads[i].ev < reads[j].ev
    /\ pc \in {"peripheral", "properties", "connect", "discover_services",
               "disconnect"} =>
         /\ p = Some(delivered[ev].id)
         /\ lh = None
         /\ next_state = None
    /\ pc \in {"read", "write"} =>
         /\ lh # None
         /\ lh[1].peripheral = delivered[ev].id
         /\ p = None
         /\ pulls = Len(yields)
    /\ pc \in {"loop", "next_event"} =>
         p = None /\ lh = None /\ next_state = None
    /\ Len(yields) <= pulls
    /\ pulls <= Len(yields) + 1
    /\ pc = "next_event" => pulls = Len(yields) + 1

\* two devices were read and written one after the other
C14_Witness ==
    /\ Len(writes) = 2
    /\ Len(ops) = 14
    /\ ops[7].ev = 1
    /\ ops[8].ev = 2
    /\ pc = "loop"

(***************************************************************************)
(* C15.  A yield the filter does not match has no effect: the pending set  *)
(* is what the matched yields alone have left of the requested names, no   *)
(* read and no write is started for the event of such a yield and no line  *)
(* is printed for it, and the run is back at the head of its loop, still   *)
(* Scanning.  Such a yield happens only in restricted mode, for a name     *)
(* that was not requested or was matched before.                           *)
(***************************************************************************)
Requested == {names[i] : i \in DOMAIN names}

MatchedNames == {yields[i].name : i \in {j \in DOMAIN yields : yields[j].matched}}

C15_UnmatchedYieldHasNoEffect ==
    /\ Restricted => filter.names[1] = Requested \ MatchedNames
    /\ \A i \in DOMAIN yields :
         ~yields[i].matched =>
           /\ Restricted
           /\ \/ yields[i].name \notin Requested
              \/ \E j \in 1 .. (i - 1) :
                   yields[j].matched /\ yields[j].name = yields[i].name
           /\ \A k \in DOMAIN ops :
                ops[k].ev = yields[i].ev => ops[k].op \notin {"read", "write"}
           /\ \A k \in DOMAIN reads : reads[k].ev # yields[i].ev
           /\ \A k \in DOMAIN writes : writes[k].ev # yields[i].ev
    /\ Len(reads) <= Cardinality({i \in DOMAIN yields : yields[i].matched})
    /\ Len(out) <= Len(reads)
    /\ Len(writes) <= Len(reads)
    /\ (yields # <<>> /\ ~yields[Len(yields)].matched /\ yields[Len(yields)].ev = ev)
         => /\ pc \in {"loop", "next_event", "returned"}
            /\ lh = None
            /\ next_state = None
            /\ (pc = "loop" => state = "Scanning" /\ failedOp = "")
            /\ state # "Failed"

\* a device that was not asked for was yielded, and a name is still pending
C15_Witness ==
    /\ names = <<"LHB-2">>
    /\ Len(yields) = 1
    /\ yields[1].name = "LHB-1"
    /\ ~yields[1].matched
    /\ pc = "loop"
    /\ filter.names = Some({"LHB-2"})

(***************************************************************************)
(* C16.  A Filter built from a non-empty list stays restricted; after any  *)
(* sequence of is_matched calls its pending set is the set of the names of *)
(* the list minus the names asked so far; a call answers true exactly when *)
(* its name is in the list and was not asked before; is_completed() is     *)
(* true exactly when every name of the list has been asked.                *)
(***************************************************************************)
Asked == {yields[i].name : i \in DOMAIN yields}

C16_PendingIsRequestedMinusAsked ==
    /\ filter.names # None
    /\ filter.names[1] = Requested \ Asked
    /\ Cardinality(filter.names[1]) <= Len(names)
    /\ \A i \in DOMAIN yields :
         yields[i].matched <=>
           /\ yields[i].name \in Requested
           /\ \A j \in 1 .. (i - 1) : yields[j].name # yields[i].name
    /\ is_completed(filter) <=> Requested \subseteq Asked
    /\ \A n \in Name \cup {"LHB-3"} :
         /\ is_matched(filter, n).ret <=> n \in Requested \ Asked
         /\ is_matched(filter, n).filter.names[1] = (Requested \ Asked) \ {n}

\* the example: names A, B; A is matched, A again is not, B is matched, and
\* the filter is completed
C16_Witness ==
    /\ names = <<"LHB-1", "LHB-2">>
    /\ Len(yields) = 3
    /\ yields[1].name = "LHB-1" /\ yields[1].matched
    /\ yields[2].name = "LHB-1" /\ ~yields[2].matched
    /\ yields[3].name = "LHB-2" /\ yields[3].matched
    /\ is_completed(filter)

(***************************************************************************)
(* C17.  The end of the feed is no error: a run is Failed only by the      *)
(* failure of a radio operation, and a run that returned without such a    *)
(* failure while its filter was not completed (unrestricted, or names      *)
(* still pending) is StreamExhausted.  In a StreamExhausted run nothing    *)
(* was read, printed or written for a name still pending.                  *)
(***************************************************************************)
TransportOps == {"start_scan", "events", "peripheral", "properties",
                 "connect", "discover_services", "disconnect", "read",
                 "write"}

C17_ExhaustedIsSuccess ==
    /\ state = "Failed" => failedOp \in TransportOps
    /\ (pc = "returned" /\ failedOp = "" /\ ~is_completed(filter))
         => state = "StreamExhausted"
    /\ state = "StreamExhausted" =>
         /\ pc = "returned"
         /\ failedOp = ""
         /\ ~is_completed(filter)
         /\ lh = None
         /\ Len(out) = Len(NonEmptyReads)
         /\ \A i \in DOMAIN out : out[i] = LineOfRead(NonEmptyReads[i])
         /\ Restricted =>
              \A n \in filter.names[1] :
                /\ n \in Requested
                /\ \A i \in DOMAIN reads : reads[i].name # n
                /\ \A i \in DOMAIN writes : writes[i].name # n
                /\ \A i \in DOMAIN yields :
                     yields[i].name = n => ~yields[i].matched
                /\ \A i \in DOMAIN out :
                     NonEmptyReads[i].name # n

\* the feed ended with one of two requested names still pending
C17_Witness ==
    /\ state = "StreamExhausted"
    /\ names = <<"LHB-1", "LHB-2">>
    /\ filter.names = Some({"LHB-2"})
    /\ Len(out) = 1

(***************************************************************************)
(* C18.  The conditions discover() skips on are no errors.  An event of    *)
(* another kind starts no operation; an event whose peripheral has no      *)
(* properties, no vendor 0x055d entry, no local name or no control         *)
(* characteristic is dropped with that reason once its operations have     *)
(* succeeded, yields no Lighthouse and leaves the filter to the matched    *)
(* yields alone; after a drop the pipeline awaits the next event without   *)
(* a new try_next(); and a run is Failed only by a radio operation.        *)
(***************************************************************************)
DeviceKinds == {"DeviceDiscovered", "DeviceUpdated"}

\* the reason discover() has to drop a peripheral, "" if it has none
WhyDropped(id) ==
    IF properties(id) = None THEN "no_properties"
    ELSE IF VENDOR_ID \notin properties(id)[1].manufacturer_data
    THEN "no_vendor"
    ELSE IF properties(id)[1].local_name = None THEN "no_local_name"
    ELSE IF CHARACTERISTIC_UUID \notin characteristics(id)
    THEN "no_characteristic"
    ELSE ""

\* the pipeline has finished with the k-th event without a failure
Settled(k) ==
    \/ k < ev
    \/ pc \in {"loop", "next_event", "read", "write"}
    \/ state \in {"Completed", "StreamExhausted"}
    \/ failedOp \in {"read", "write"}

C18_SkipsAreNotErrors ==
    /\ state = "Failed" => failedOp \in TransportOps
    /\ \A i \in DOMAIN skips :
         /\ skips[i].ev \in DOMAIN delivered
         /\ delivered[skips[i].ev].kind \in DeviceKinds
         /\ skips[i].id = delivered[skips[i].ev].id
         /\ skips[i].why = WhyDropped(skips[i].id)
         /\ skips[i].why # ""
         /\ \A j \in DOMAIN yields : yields[j].ev # skips[i].ev
         /\ \A j \in DOMAIN skips : skips[j].ev = skips[i].ev => j = i
         /\ \A k \in DOMAIN ops :
              ops[k].ev = skips[i].ev => ops[k].op \notin {"read", "write"}
         /\ (skips[i].ev = ev) =>
              /\ state \in {"Scanning", "StreamExhausted"}
              /\ pc \in {"next_event", "returned"}
              /\ failedOp = ""
              /\ p = None
    /\ \A k \in DOMAIN delivered :
         IF delivered[k].kind \in DeviceKinds
         THEN Settled(k) =>
                LET why == WhyDropped(delivered[k].id) IN
                /\ why # "" =>
                     \E i \in DOMAIN skips :
                       skips[i].ev = k /\ skips[i].why = why
                /\ why = "" => \E j \in DOMAIN yields : yields[j].ev = k
         ELSE /\ OpsOfEvent(k) = <<>>
              /\ \A i \in DOMAIN skips : skips[i].ev # k
              /\ \A j \in DOMAIN yields : yields[j].ev # k
              /\ k = ev => pc \in {"next_event", "returned"} /\ failedOp = ""
    /\ Restricted => filter.names[1] = Requested \ MatchedNames
    /\ pulls <= Len(yields) + 1

\* an event of another kind and a peripheral without the characteristic were
\* passed over within one try_next(), with a name still pending
C18_Witness ==
    /\ Len(delivered) = 2
    /\ delivered[1].kind = "DeviceConnected"
    /\ Len(skips) = 1
    /\ skips[1].why = "no_characteristic"
    /\ pc = "next_event"
    /\ pulls = 1
    /\ filter = Filter_new(names)
    /\ names # <<>>

(***************************************************************************)
(* C19.  In restricted mode, under fairness of the task: if no operation   *)
(* fails, the feed does not end and for every requested name the feed      *)
(* eventually delivers a ready vendor device of that name, the run is      *)
(* eventually Completed; more sharply, from the moment every requested     *)
(* name has been yielded without a failure the run is eventually Completed *)
(* unless an operation fails.  A Completed run has started exactly one     *)
(* read for each distinct requested name and no other read.                *)
(***************************************************************************)
DeliveredReady(n) ==
    \E i \in DOMAIN delivered :
      /\ delivered[i].kind \in DeviceKinds
      /\ Ready(delivered[i].id)
      /\ NameOfId(delivered[i].id) = n

ReadsStartedFor(n) ==
    {i \in DOMAIN ops : ops[i].op = "read" /\ NameOfId(ops[i].id) = n}

C19_EventuallyCompleted ==
    /\ ( /\ [](failedOp = "")
         /\ [](state # "StreamExhausted")
         /\ \A n \in Name : <>(n \in Requested => DeliveredReady(n)) )
       => <>(state = "Completed")
    /\ (Requested \subseteq {yields[i].name : i \in DOMAIN yields})
         ~> (state \in {"Completed", "Failed"})
    /\ [](state = "Completed" =>
            /\ \A n \in Requested : Cardinality(ReadsStartedFor(n)) = 1
            /\ Cardinality({i \in DOMAIN ops : ops[i].op = "read"})
                 = Cardinality(Requested))

\* a run asked for two names, completed after two reads
C19_Witness ==
    /\ state = "Completed"
    /\ Cardinality(Requested) = 2
    /\ Cardinality({i \in DOMAIN ops : ops[i].op = "read"}) = 2
    /\ failedOp = ""

(***************************************************************************)
(* C20.  A run that has returned is in exactly one of Completed,           *)
(* StreamExhausted and Failed, and stays there.  Failed is the state of    *)
(* every run in which an operation failed, also when the failed read or    *)
(* write was that of the device that matched the last pending name; a      *)
(* Completed run has no failed operation, and the read of every matched    *)
(* device and the write after every non-empty read have returned.          *)
(***************************************************************************)
C20_TerminalStates ==
    /\ [](/\ state \in {"Scanning"} \cup Terminal
          /\ state \in Terminal <=> pc = "returned"
          /\ state = "Failed" <=> failedOp # ""
          /\ (failedOp \in {"read", "write"} /\ PendingEmpty)
               => state = "Failed"
          /\ state = "StreamExhausted" => ~PendingEmpty
          /\ state = "Completed" =>
               /\ PendingEmpty
               /\ failedOp = ""
               /\ lh = None
               /\ Len(reads) =
                    Cardinality({i \in DOMAIN yields : yields[i].matched})
               /\ Len(reads) =
                    Cardinality({i \in DOMAIN ops : ops[i].op = "read"})
               /\ Len(writes) =
                    IF command = "Scan" THEN 0 ELSE Len(NonEmptyReads)
               /\ Len(writes) =
                    Cardinality({i \in DOMAIN ops : ops[i].op = "write"}))
    /\ [][(state \in Terminal) => (vars' = vars)]_vars
    /\ [][(state' = "Completed") =>
            (pc = "loop" /\ PendingEmpty /\ failedOp' = "")]_vars

\* the write for the device that matched the last pending name failed
C20_Witness ==
    /\ state = "Failed"
    /\ failedOp = "write"
    /\ PendingEmpty
    /\ Len(names) = 2
    /\ Len(reads) = 2

=============================================================================
